---- MODULE Spec2Model ----
(***************************************************************************)
(* Side Project Launcher: the LangGraph pipeline                           *)
(* (side_project_launcher_langgraph.py) and the direct-call script         *)
(* (side_project_launcher.py).                                             *)
(*                                                                         *)
(* A text is a sequence of pieces; a piece is either the whitespace piece  *)
(* " " or a string that neither starts nor ends with whitespace.  The idea *)
(* is kept character by character because the folder name is computed     *)
(* from its characters.                                                    *)
(*                                                                         *)
(* The configuration service, the language model, the clock and the file   *)
(* system are the environment: each call draws its outcome from a small    *)
(* set, a raised exception included.                                       *)
(***************************************************************************)
EXTENDS Integers, Sequences, FiniteSets, TLC

VARIABLES prog, pc, state, configs, fs, clock, log

vars == <<prog, pc, state, configs, fs, clock, log>>

(* ---------------------------------------------------------------- bounds *)
\* the clock is read in whole minutes 0..MaxClock
MaxClock == 1

(* ------------------------------------------------------------- text kit *)
WS == " "

RECURSIVE LStrip(_)
LStrip(s) == IF s # <<>> /\ Head(s) = WS THEN LStrip(Tail(s)) ELSE s

RECURSIVE RStrip(_)
RStrip(s) ==
    IF s # <<>> /\ s[Len(s)] = WS THEN RStrip(SubSeq(s, 1, Len(s) - 1)) ELSE s

\* str.strip()
Strip(s) == RStrip(LStrip(s))

\* str.lower() on the characters that occur in the inputs
LowerChar(c) ==
    CASE c = "A" -> "a"
      [] c = "B" -> "b"
      [] c = "I" -> "i"
      [] OTHER -> c

Lower(s) == [i \in 1..Len(s) |-> LowerChar(s[i])]

\* s[:n]
Take(s, n) == SubSeq(s, 1, IF Len(s) < n THEN Len(s) ELSE n)

\* s.replace(a, b) for single characters
Replace(s, a, b) == [i \in 1..Len(s) |-> IF s[i] = a THEN b ELSE s[i]]

\* the characters c of the inputs with c.isalnum()
AlnumChars ==
    {"a", "b", "c", "d", "e", "f", "g", "h", "i", "l", "m", "o", "p", "r",
     "s", "t", "u", "w", "A", "B", "I", "1", "2", "3"}

RECURSIVE Filter(_, _)
Filter(s, keep) ==
    IF s = <<>> THEN <<>>
    ELSE IF Head(s) \in keep THEN <<Head(s)>> \o Filter(Tail(s), keep)
    ELSE Filter(Tail(s), keep)

\* idea.lower()[:30]
FolderNameLen == 30

\* datetime.now().strftime(fmt): the minute count rendered under a format
Strftime(t, fmt) == <<fmt, t>>

(* -------------------------------------------------- values of the inputs *)
SampleIdea ==
    <<"A","I","-","p","o","w","e","r","e","d"," ","r","e","c","i","p","e"," ",
      "a","p","p"," ","t","h","a","t"," ","s","u","g","g","e","s","t","s"," ",
      "m","e","a","l","s"," ","f","r","o","m"," ","f","r","i","d","g","e"," ",
      "p","h","o","t","o","s">>

SampleAudience == <<"busy parents who hate meal planning">>
SampleProblem == <<"no time to plan meals, food goes to waste">>
SampleValueProp ==
    <<"See what's in your fridge, get tonight's dinner in seconds">>
SampleUsers == <<"10,000 monthly active users">>
SampleBudget == <<"$500/month">>
SampleExpertise == <<"Python, React, some AWS experience">>

\* what the user types at the seven prompts, before .strip()
RawSample ==
    [idea |-> SampleIdea, target_audience |-> SampleAudience,
     problem_statement |-> SampleProblem, unique_value_prop |-> SampleValueProp,
     expected_users |-> SampleUsers, budget |-> SampleBudget,
     team_expertise |-> SampleExpertise]

RawShort ==
    [idea |-> <<" ", "A", "/", "b", "!", " ">>,
     target_audience |-> <<" ", "busy parents">>,
     problem_statement |-> <<"no time", " ">>,
     unique_value_prop |-> <<"snap a photo">>,
     expected_users |-> <<"100">>, budget |-> <<"$5">>,
     team_expertise |-> <<" ", "Python", " ">>]

RawOther ==
    [idea |-> <<"a", " ", "B">>,
     target_audience |-> <<"students">>,
     problem_statement |-> <<"no time">>,
     unique_value_prop |-> <<"cheap">>,
     expected_users |-> <<"100">>, budget |-> <<"$5">>,
     team_expertise |-> <<"Go">>]

RawInputs == {RawSample, RawShort, RawOther}

InputFields ==
    {"idea", "target_audience", "problem_statement", "unique_value_prop",
     "expected_users", "budget", "team_expertise", "user_id", "output_dir"}

OutputFields == {"idea_validation", "landing_page_copy", "tech_stack"}

NotEnabled == "Config not enabled"

\* response.content of a model call that returns
Responses == {"", "Looks promising."}

\* outcome of llm.invoke: a response, or an exception
Fault == "<<raised>>"
LlmOutcomes == Responses \cup {Fault}

\* outcome of the configuration service for one named configuration
CfgOutcomes == {"enabled", "disabled", "unreachable"}

Event(op, key, arg, res) == [op |-> op, key |-> key, arg |-> arg, res |-> res]

(* --------------------------------------- side_project_launcher_langgraph *)
build_context(user_id) == [kind |-> "user", key |-> user_id]

\* AIAgentConfigDefault(enabled=False)
Fallback == [enabled |-> FALSE, model |-> "", instructions |-> <<>>]

\* ai_client.agent_config(config_key, context, fallback, variables): the
\* service's configuration when it serves one that is enabled for the
\* context, a disabled configuration when it serves a disabled one, and the
\* fallback when the evaluation fails
agent_config(config_key, context, fallback, variables, outcome) ==
    CASE outcome = "enabled" ->
           [enabled |-> TRUE, model |-> "claude",
            instructions |-> <<config_key, variables>>]
      [] outcome = "disabled" ->
           [enabled |-> FALSE, model |-> "claude",
            instructions |-> <<config_key, variables>>]
      [] OTHER -> fallback

\* a variant whose fallback is an enabled configuration
get_agent_config_enabled_fallback(config_key, context, variables, outcome) ==
    LET fallback == [enabled |-> TRUE, model |-> "", instructions |-> <<>>]
    IN  agent_config(config_key, context, fallback, variables, outcome)

get_agent_config(config_key, context, variables, outcome) ==
    LET fallback == Fallback
    IN  agent_config(config_key, context, fallback, variables, outcome)

get_user_input(raw, now) ==
    LET idea == Strip(raw.idea)
        folder0 ==
            Replace(Replace(Take(Lower(idea), FolderNameLen), " ", "-"),
                    "/", "-")
        folder_name == Filter(folder0, AlnumChars \cup {"-"})
        timestamp == Strftime(now, "%Y%m%d-%H%M")
        output_dir == <<"output/", folder_name, "-", timestamp>>
    IN  [user_id |-> <<"user-", timestamp>>,
         idea |-> idea,
         target_audience |-> Strip(raw.target_audience),
         problem_statement |-> Strip(raw.problem_statement),
         unique_value_prop |-> Strip(raw.unique_value_prop),
         expected_users |-> Strip(raw.expected_users),
         budget |-> Strip(raw.budget),
         team_expertise |-> Strip(raw.team_expertise),
         idea_validation |-> "",
         landing_page_copy |-> "",
         tech_stack |-> "",
         output_dir |-> output_dir]


\* a node's result: the state it returns, the external calls it made in
\* order, and whether it raised instead of returning
NodeResult(st, events, raised) ==
    [state |-> st, events |-> events, raised |-> raised]

\* a variant that lets a failed configuration fetch raise
idea_validator_node_fetch_raises(st, cfgOutcome, llmOutcome) ==
    LET context == build_context(st.user_id)
        variables ==
            <<<<"idea", st.idea>>, <<"target_audience", st.target_audience>>,
              <<"problem_statement", st.problem_statement>>>>
        config == get_agent_config("idea-validator", context, variables,
                                   cfgOutcome)
        fetch == Event("fetch", "idea-validator", <<context, variables>>,
                       cfgOutcome)
        human == "Please validate this idea and provide your analysis."
        invoke == Event("llm", "idea-validator",
                        <<config.model, config.instructions, human,
                          IF llmOutcome = Fault THEN <<>> ELSE <<llmOutcome>>>>,
                        IF llmOutcome = Fault THEN "raised" ELSE "returned")
    IN  IF cfgOutcome = "unreachable"
        THEN NodeResult(st, <<fetch>>, TRUE)
        ELSE IF config.enabled
        THEN IF llmOutcome = Fault
             THEN NodeResult(st, <<fetch, invoke>>, TRUE)
             ELSE NodeResult(
                      [st EXCEPT !.idea_validation = llmOutcome],
                      <<fetch, invoke,
                        Event("set", "idea_validation", <<llmOutcome>>, "ok"),
                        Event("track_success", "idea-validator", <<>>, "ok")>>,
                      FALSE)
        ELSE NodeResult(
                 [st EXCEPT !.idea_validation = NotEnabled],
                 <<fetch, Event("set", "idea_validation", <<NotEnabled>>, "ok")>>,
                 FALSE)

idea_validator_node(st, cfgOutcome, llmOutcome) ==
    LET context == build_context(st.user_id)
        variables ==
            <<<<"idea", st.idea>>, <<"target_audience", st.target_audience>>,
              <<"problem_statement", st.problem_statement>>>>
        config == get_agent_config("idea-validator", context, variables,
                                   cfgOutcome)
        fetch == Event("fetch", "idea-validator", <<context, variables>>,
                       cfgOutcome)
        human == "Please validate this idea and provide your analysis."
        invoke == Event("llm", "idea-validator",
                        <<config.model, config.instructions, human,
                          IF llmOutcome = Fault THEN <<>> ELSE <<llmOutcome>>>>,
                        IF llmOutcome = Fault THEN "raised" ELSE "returned")
    IN  IF config.enabled
        THEN IF llmOutcome = Fault
             THEN NodeResult(st, <<fetch, invoke>>, TRUE)
             ELSE NodeResult(
                      [st EXCEPT !.idea_validation = llmOutcome],
                      <<fetch, invoke,
                        Event("set", "idea_validation", <<llmOutcome>>, "ok"),
                        Event("track_success", "idea-validator", <<>>, "ok")>>,
                      FALSE)
        ELSE NodeResult(
                 [st EXCEPT !.idea_validation = NotEnabled],
                 <<fetch, Event("set", "idea_validation", <<NotEnabled>>, "ok")>>,
                 FALSE)

\* a variant that catches the exception of the model call and returns
landing_page_writer_node_catches(st, cfgOutcome, llmOutcome) ==
    LET context == build_context(st.user_id)
        variables ==
            <<<<"idea", st.idea>>, <<"target_audience", st.target_audience>>,
              <<"unique_value_prop", st.unique_value_prop>>>>
        config == get_agent_config("landing-page-writer", context, variables,
                                   cfgOutcome)
        fetch == Event("fetch", "landing-page-writer", <<context, variables>>,
                       cfgOutcome)
        human == "Please write the landing page copy."
        invoke == Event("llm", "landing-page-writer",
                        <<config.model, config.instructions, human,
                          IF llmOutcome = Fault THEN <<>> ELSE <<llmOutcome>>>>,
                        IF llmOutcome = Fault THEN "raised" ELSE "returned")
    IN  IF config.enabled
        THEN IF llmOutcome = Fault
             THEN NodeResult(st, <<fetch, invoke>>, FALSE)
             ELSE NodeResult(
                      [st EXCEPT !.landing_page_copy = llmOutcome],
                      <<fetch, invoke,
                        Event("set", "landing_page_copy", <<llmOutcome>>, "ok"),
                        Event("track_success", "landing-page-writer", <<>>,
                              "ok")>>,
                      FALSE)
        ELSE NodeResult(
                 [st EXCEPT !.landing_page_copy = NotEnabled],
                 <<fetch,
                   Event("set", "landing_page_copy", <<NotEnabled>>, "ok")>>,
                 FALSE)

landing_page_writer_node(st, cfgOutcome, llmOutcome) ==
    LET context == build_context(st.user_id)
        variables ==
            <<<<"idea", st.idea>>, <<"target_audience", st.target_audience>>,
              <<"unique_value_prop", st.unique_value_prop>>>>
        config == get_agent_config("landing-page-writer", context, variables,
                                   cfgOutcome)
        fetch == Event("fetch", "landing-page-writer", <<context, variables>>,
                       cfgOutcome)
        human == "Please write the landing page copy."
        invoke == Event("llm", "landing-page-writer",
                        <<config.model, config.instructions, human,
                          IF llmOutcome = Fault THEN <<>> ELSE <<llmOutcome>>>>,
                        IF llmOutcome = Fault THEN "raised" ELSE "returned")
    IN  IF config.enabled
        THEN IF llmOutcome = Fault
             THEN NodeResult(st, <<fetch, invoke>>, TRUE)
             ELSE NodeResult(
                      [st EXCEPT !.landing_page_copy = llmOutcome],
                      <<fetch, invoke,
                        Event("set", "landing_page_copy", <<llmOutcome>>, "ok"),
                        Event("track_success", "landing-page-writer", <<>>,
                              "ok")>>,
                      FALSE)
        ELSE NodeResult(
                 [st EXCEPT !.landing_page_copy = NotEnabled],
                 <<fetch,
                   Event("set", "landing_page_copy", <<NotEnabled>>, "ok")>>,
                 FALSE)

\* a variant without the else branch: a disabled stage stores nothing
tech_stack_advisor_node_no_else(st, cfgOutcome, llmOutcome) ==
    LET context == build_context(st.user_id)
        variables ==
            <<<<"expected_users", st.expected_users>>, <<"budget", st.budget>>,
              <<"team_expertise", st.team_expertise>>>>
        config == get_agent_config("tech-stack-advisor", context, variables,
                                   cfgOutcome)
        fetch == Event("fetch", "tech-stack-advisor", <<context, variables>>,
                       cfgOutcome)
        human == "Please recommend a tech stack."
        invoke == Event("llm", "tech-stack-advisor",
                        <<config.model, config.instructions, human,
                          IF llmOutcome = Fault THEN <<>> ELSE <<llmOutcome>>>>,
                        IF llmOutcome = Fault THEN "raised" ELSE "returned")
    IN  IF config.enabled
        THEN IF llmOutcome = Fault
             THEN NodeResult(st, <<fetch, invoke>>, TRUE)
             ELSE NodeResult(
                      [st EXCEPT !.tech_stack = llmOutcome],
                      <<fetch, invoke,
                        Event("set", "tech_stack", <<llmOutcome>>, "ok"),
                        Event("track_success", "tech-stack-advisor", <<>>,
                              "ok")>>,
                      FALSE)
        ELSE NodeResult(st, <<fetch>>, FALSE)


tech_stack_advisor_node(st, cfgOutcome, llmOutcome) ==
    LET context == build_context(st.user_id)
        variables ==
            <<<<"expected_users", st.expected_users>>, <<"budget", st.budget>>,
              <<"team_expertise", st.team_expertise>>>>
        config == get_agent_config("tech-stack-advisor", context, variables,
                                   cfgOutcome)
        fetch == Event("fetch", "tech-stack-advisor", <<context, variables>>,
                       cfgOutcome)
        human == "Please recommend a tech stack."
        invoke == Event("llm", "tech-stack-advisor",
                        <<config.model, config.instructions, human,
                          IF llmOutcome = Fault THEN <<>> ELSE <<llmOutcome>>>>,
                        IF llmOutcome = Fault THEN "raised" ELSE "returned")
    IN  IF config.enabled
        THEN IF llmOutcome = Fault
             THEN NodeResult(st, <<fetch, invoke>>, TRUE)
             ELSE NodeResult(
                      [st EXCEPT !.tech_stack = llmOutcome],
                      <<fetch, invoke,
                        Event("set", "tech_stack", <<llmOutcome>>, "ok"),
                        Event("track_success", "tech-stack-advisor", <<>>,
                              "ok")>>,
                      FALSE)
        ELSE NodeResult(
                 [st EXCEPT !.tech_stack = NotEnabled],
                 <<fetch, Event("set", "tech_stack", <<NotEnabled>>, "ok")>>,
                 FALSE)


(* ------------------------------------------------------- the file system *)
\* a file system maps each existing directory to its files, and each file
\* to its content
EmptyFs == <<>>

\* Path.mkdir(parents=True, exist_ok=True)
Mkdir(f, dir) == IF dir \in DOMAIN f THEN f ELSE (dir :> <<>>) @@ f

\* Path.write_text(content): creates or truncates the file, then writes
\* a variant that leaves an existing file as it is
WriteText_keeps_existing(f, dir, name, content) ==
    [f EXCEPT ![dir] = f[dir] @@ (name :> content)]

WriteText(f, dir, name, content) ==
    [f EXCEPT ![dir] = (name :> content) @@ f[dir]]

\* a write_text that raises: either the file could not be opened, and
\* nothing changes, or it was opened (created or truncated) and the write
\* failed, which leaves it empty
FailedWrite(f, dir, name, kind) ==
    IF kind = "truncated" THEN WriteText(f, dir, name, <<>>) ELSE f

FileNames ==
    {"00-summary.md", "01-idea-validation.md", "02-landing-page.md",
     "03-tech-stack.md"}

\* where save_outputs_node may raise, and how a failing write leaves its file
FaultPoints == {"none", "mkdir"} \cup FileNames
FaultKinds == {"unopened", "truncated"}

IdeaValidationMd(st) == <<"# Idea Validation", "\n\n", st.idea_validation>>
LandingPageMd(st) == <<"# Landing Page Copy", "\n\n", st.landing_page_copy>>
TechStackMd(st) == <<"# Tech Stack Recommendation", "\n\n", st.tech_stack>>

SummaryMd(st, now) ==
    <<"# Side Project Summary", "## Idea", st.idea,
      "## Target Audience", st.target_audience,
      "## Problem Statement", st.problem_statement,
      "## Unique Value Proposition", st.unique_value_prop,
      "## Technical Requirements",
      "- Expected Users: ", st.expected_users,
      "- Budget: ", st.budget,
      "- Team Expertise: ", st.team_expertise,
      "---", "Generated: ", Strftime(now, "%Y-%m-%d %H:%M")>>

\* a save's result: the state it returns, the file system it leaves, the
\* external calls in order, whether the clock was read, whether it raised
SaveResult(st, f, events, readClock, raised) ==
    [state |-> st, fs |-> f, events |-> events, readClock |-> readClock,
     raised |-> raised]

\* what a write_text call did: it raised, or it created the file, or it
\* replaced the content of a file that was there
WriteEvent(f, dir, name, faultAt, kind) ==
    Event("write_text", name, <<>>,
          IF faultAt = name THEN kind
          ELSE IF name \in DOMAIN f[dir] THEN "replaced" ELSE "created")

\* a variant that writes the summary before the three stage files
save_outputs_node_summary_first(st, f0, now, faultAt, kind) ==
    LET output_dir == st.output_dir
        mk == Event("mkdir", "", <<output_dir>>,
                    IF faultAt = "mkdir" THEN "raised"
                    ELSE IF output_dir \in DOMAIN f0 THEN "exists"
                    ELSE "created")
        f1 == Mkdir(f0, output_dir)
        e1 == <<mk, WriteEvent(f1, output_dir, "00-summary.md", faultAt, kind)>>
        f2 == WriteText(f1, output_dir, "00-summary.md", SummaryMd(st, now))
        e2 == Append(e1, WriteEvent(f2, output_dir, "01-idea-validation.md",
                                    faultAt, kind))
        f3 == WriteText(f2, output_dir, "01-idea-validation.md",
                        IdeaValidationMd(st))
        e3 == Append(e2, WriteEvent(f3, output_dir, "02-landing-page.md",
                                    faultAt, kind))
        f4 == WriteText(f3, output_dir, "02-landing-page.md",
                        LandingPageMd(st))
        e4 == Append(e3, WriteEvent(f4, output_dir, "03-tech-stack.md",
                                    faultAt, kind))
        f5 == WriteText(f4, output_dir, "03-tech-stack.md", TechStackMd(st))
    IN  CASE faultAt = "mkdir" -> SaveResult(st, f0, <<mk>>, FALSE, TRUE)
          [] faultAt = "00-summary.md" ->
               SaveResult(st, FailedWrite(f1, output_dir, faultAt, kind), e1,
                          TRUE, TRUE)
          [] faultAt = "01-idea-validation.md" ->
               SaveResult(st, FailedWrite(f2, output_dir, faultAt, kind), e2,
                          TRUE, TRUE)
          [] faultAt = "02-landing-page.md" ->
               SaveResult(st, FailedWrite(f3, output_dir, faultAt, kind), e3,
                          TRUE, TRUE)
          [] faultAt = "03-tech-stack.md" ->
               SaveResult(st, FailedWrite(f4, output_dir, faultAt, kind), e4,
                          TRUE, TRUE)
          [] OTHER -> SaveResult(st, f5, e4, TRUE, FALSE)

save_outputs_node(st, f0, now, faultAt, kind) ==
    LET output_dir == st.output_dir
        mk == Event("mkdir", "", <<output_dir>>,
                    IF faultAt = "mkdir" THEN "raised"
                    ELSE IF output_dir \in DOMAIN f0 THEN "exists"
                    ELSE "created")
        f1 == Mkdir(f0, output_dir)
        e1 == <<mk, WriteEvent(f1, output_dir, "01-idea-validation.md",
                               faultAt, kind)>>
        f2 == WriteText(f1, output_dir, "01-idea-validation.md",
                        IdeaValidationMd(st))
        e2 == Append(e1, WriteEvent(f2, output_dir, "02-landing-page.md",
                                    faultAt, kind))
        f3 == WriteText(f2, output_dir, "02-landing-page.md",
                        LandingPageMd(st))
        e3 == Append(e2, WriteEvent(f3, output_dir, "03-tech-stack.md",
                                    faultAt, kind))
        f4 == WriteText(f3, output_dir, "03-tech-stack.md", TechStackMd(st))
        e4 == Append(e3, WriteEvent(f4, output_dir, "00-summary.md",
                                    faultAt, kind))
        f5 == WriteText(f4, output_dir, "00-summary.md", SummaryMd(st, now))
    IN  CASE faultAt = "mkdir" -> SaveResult(st, f0, <<mk>>, FALSE, TRUE)
          [] faultAt = "01-idea-validation.md" ->
               SaveResult(st, FailedWrite(f1, output_dir, faultAt, kind), e1,
                          FALSE, TRUE)
          [] faultAt = "02-landing-page.md" ->
               SaveResult(st, FailedWrite(f2, output_dir, faultAt, kind), e2,
                          FALSE, TRUE)
          [] faultAt = "03-tech-stack.md" ->
               SaveResult(st, FailedWrite(f3, output_dir, faultAt, kind), e3,
                          FALSE, TRUE)
          [] faultAt = "00-summary.md" ->
               SaveResult(st, FailedWrite(f4, output_dir, faultAt, kind), e4,
                          TRUE, TRUE)
          [] OTHER -> SaveResult(st, f5, e4, TRUE, FALSE)

(* ------------------------------------------------------------- the graph *)
END == "__end__"

\* a variant with the two middle edges in the other order
graph_stack_before_landing_page ==
    [nodes |-> [validate_idea |-> "idea_validator_node",
                write_landing_page |-> "landing_page_writer_node",
                recommend_stack |-> "tech_stack_advisor_node",
                save_outputs |-> "save_outputs_node"],
     entry |-> "validate_idea",
     edges |-> [validate_idea |-> "recommend_stack",
                recommend_stack |-> "write_landing_page",
                write_landing_page |-> "save_outputs",
                save_outputs |-> END]]

\* a variant whose third edge leads back to the entry point
graph_with_back_edge ==
    [nodes |-> [validate_idea |-> "idea_validator_node",
                write_landing_page |-> "landing_page_writer_node",
                recommend_stack |-> "tech_stack_advisor_node",
                save_outputs |-> "save_outputs_node"],
     entry |-> "validate_idea",
     edges |-> [validate_idea |-> "write_landing_page",
                write_landing_page |-> "recommend_stack",
                recommend_stack |-> "validate_idea",
                save_outputs |-> END]]

build_side_project_graph ==
    [nodes |-> [validate_idea |-> "idea_validator_node",
                write_landing_page |-> "landing_page_writer_node",
                recommend_stack |-> "tech_stack_advisor_node",
                save_outputs |-> "save_outputs_node"],
     entry |-> "validate_idea",
     edges |-> [validate_idea |-> "write_landing_page",
                write_landing_page |-> "recommend_stack",
                recommend_stack |-> "save_outputs",
                save_outputs |-> END]]

app == build_side_project_graph

\* a variant of the call in which the stage normalises the idea it was given
CallStage_lowercases_idea(fn, st, cfgOutcome, llmOutcome) ==
    LET r == CASE fn = "idea_validator_node" ->
                    idea_validator_node(st, cfgOutcome, llmOutcome)
               [] fn = "landing_page_writer_node" ->
                    landing_page_writer_node(st, cfgOutcome, llmOutcome)
               [] fn = "tech_stack_advisor_node" ->
                    tech_stack_advisor_node(st, cfgOutcome, llmOutcome)
    IN  [r EXCEPT !.state.idea = Lower(@)]

\* the call of the stage function a node is bound to
CallStage(fn, st, cfgOutcome, llmOutcome) ==
    CASE fn = "idea_validator_node" ->
           idea_validator_node(st, cfgOutcome, llmOutcome)
      [] fn = "landing_page_writer_node" ->
           landing_page_writer_node(st, cfgOutcome, llmOutcome)
      [] fn = "tech_stack_advisor_node" ->
           tech_stack_advisor_node(st, cfgOutcome, llmOutcome)


\* app.invoke(initial_state) as one computation: the nodes run from the
\* entry point along the edges until END, or until one raises; env gives
\* the outcome of every external call
RECURSIVE RunFrom(_, _, _, _, _)
RunFrom(node, st, f, events, env) ==
    IF node = END
    THEN [state |-> st, fs |-> f, events |-> events, pc |-> END]
    ELSE IF app.nodes[node] = "save_outputs_node"
    THEN LET r == save_outputs_node(st, f, env.now, env.at, env.kind)
         IN  IF r.raised
             THEN [state |-> r.state, fs |-> r.fs,
                   events |-> events \o r.events, pc |-> "aborted"]
             ELSE RunFrom(app.edges[node], r.state, r.fs,
                          events \o r.events, env)
    ELSE LET r == CallStage(app.nodes[node], st, env.cfg[node], env.llm[node])
         IN  IF r.raised
             THEN [state |-> r.state, fs |-> f,
                   events |-> events \o r.events, pc |-> "aborted"]
             ELSE RunFrom(app.edges[node], r.state, f,
                          events \o r.events, env)

Invoke(initial_state, f, env) == RunFrom(app.entry, initial_state, f, <<>>, env)

(* ------------------------------------------------- side_project_launcher *)
direct_build_context(user_id) == [kind |-> "user", key |-> user_id]

direct_get_agent_config(config_key, user_id, variables, outcome) ==
    LET context == direct_build_context(user_id)
        fallback == Fallback
    IN  agent_config(config_key, context, fallback, variables, outcome)

\* a call's result: the value returned (<<config>>, or <<>> for None) and
\* the external calls it made in order
CallResult(ret, events) == [ret |-> ret, events |-> events]

validate_idea(user_id, idea, target_audience, problem_statement, outcome) ==
    LET variables ==
            <<<<"idea", idea>>, <<"target_audience", target_audience>>,
              <<"problem_statement", problem_statement>>>>
        config == direct_get_agent_config("idea-validator", user_id,
                                          variables, outcome)
        fetch == Event("fetch", "idea-validator",
                       <<direct_build_context(user_id), variables>>, outcome)
    IN  IF config.enabled THEN CallResult(<<config>>, <<fetch>>)
        ELSE CallResult(<<>>, <<fetch>>)

\* a variant that fetches the configuration of another stage
write_landing_page_wrong_key(user_id, idea, target_audience, unique_value_prop, outcome) ==
    LET variables ==
            <<<<"idea", idea>>, <<"target_audience", target_audience>>,
              <<"unique_value_prop", unique_value_prop>>>>
        config == direct_get_agent_config("tech-stack-advisor", user_id,
                                          variables, outcome)
        fetch == Event("fetch", "tech-stack-advisor",
                       <<direct_build_context(user_id), variables>>, outcome)
    IN  IF config.enabled THEN CallResult(<<config>>, <<fetch>>)
        ELSE CallResult(<<>>, <<fetch>>)

write_landing_page(user_id, idea, target_audience, unique_value_prop, outcome) ==
    LET variables ==
            <<<<"idea", idea>>, <<"target_audience", target_audience>>,
              <<"unique_value_prop", unique_value_prop>>>>
        config == direct_get_agent_config("landing-page-writer", user_id,
                                          variables, outcome)
        fetch == Event("fetch", "landing-page-writer",
                       <<direct_build_context(user_id), variables>>, outcome)
    IN  IF config.enabled THEN CallResult(<<config>>, <<fetch>>)
        ELSE CallResult(<<>>, <<fetch>>)

recommend_tech_stack(user_id, expected_users, budget, team_expertise, outcome) ==
    LET variables ==
            <<<<"expected_users", expected_users>>, <<"budget", budget>>,
              <<"team_expertise", team_expertise>>>>
        config == direct_get_agent_config("tech-stack-advisor", user_id,
                                          variables, outcome)
        fetch == Event("fetch", "tech-stack-advisor",
                       <<direct_build_context(user_id), variables>>, outcome)
    IN  IF config.enabled THEN CallResult(<<config>>, <<fetch>>)
        ELSE CallResult(<<>>, <<fetch>>)

\* the variables __main__ of the direct script sets before its first call
DirectLocals ==
    [user_id |-> <<"user-", "123">>,
     idea |-> SampleIdea,
     target_audience |-> SampleAudience,
     problem_statement |-> SampleProblem]

\* idea_config, landing_config, stack_config before they are assigned
NoConfigs ==
    [idea_config |-> <<>>, landing_config |-> <<>>, stack_config |-> <<>>]

(* ------------------------------------------------------------------ Init *)
\* what an earlier run of the pipeline may have left in the directory this
\* run is about to use: nothing, or the files written by save_outputs_node
\* for an earlier state with the same output_dir, the save having completed
\* or raised
EarlierStates(now) ==
    {[get_user_input(raw, now) EXCEPT
         !.idea_validation = "Looks promising.",
         !.landing_page_copy = NotEnabled,
         !.tech_stack = "Looks promising."] : raw \in RawInputs}

EarlierFs(dir, now) ==
    {EmptyFs} \cup
    {save_outputs_node(st, EmptyFs, now, at, "truncated").fs :
        st \in {e \in EarlierStates(now) : e.output_dir = dir},
        at \in FaultPoints \ {"mkdir"}}

InitGraph ==
    /\ prog = "langgraph"
    /\ clock \in 0..MaxClock
    /\ \E raw \in RawInputs : state = get_user_input(raw, clock)
    /\ fs \in EarlierFs(state.output_dir, clock)
    /\ pc = app.entry
    /\ configs = NoConfigs
    /\ log = <<>>

InitDirect ==
    /\ prog = "direct"
    /\ clock \in 0..MaxClock
    /\ state = DirectLocals
    /\ fs = EmptyFs
    /\ pc = "VALIDATING IDEA"
    /\ configs = NoConfigs
    /\ log = <<>>

Init == InitGraph \/ InitDirect

(* --------------------------------------------- the pipeline, node by node *)
\* the runtime runs the node pc names, then follows its edge; a node that
\* raises ends the run, the exception leaving app.invoke and __main__
Enter(node) == Event("node", node, <<>>, "start")

Arrive(node) == IF node = END THEN <<Event("node", END, <<>>, "end")>> ELSE <<>>

StageStep(node, r) ==
    /\ state' = r.state
    /\ log' = log \o <<Enter(node)>> \o r.events
               \o (IF r.raised THEN <<>> ELSE Arrive(app.edges[node]))
    /\ pc' = IF r.raised THEN "aborted" ELSE app.edges[node]
    /\ UNCHANGED <<prog, configs, fs, clock>>

ValidateIdea ==
    /\ prog = "langgraph"
    /\ pc = "validate_idea"
    /\ \E c \in CfgOutcomes, l \in LlmOutcomes :
          StageStep("validate_idea",
                    CallStage(app.nodes["validate_idea"], state, c, l))

WriteLandingPage ==
    /\ prog = "langgraph"
    /\ pc = "write_landing_page"
    /\ \E c \in CfgOutcomes, l \in LlmOutcomes :
          StageStep("write_landing_page",
                    CallStage(app.nodes["write_landing_page"], state, c, l))

RecommendStack ==
    /\ prog = "langgraph"
    /\ pc = "recommend_stack"
    /\ \E c \in CfgOutcomes, l \in LlmOutcomes :
          StageStep("recommend_stack",
                    CallStage(app.nodes["recommend_stack"], state, c, l))

SaveOutputs ==
    /\ prog = "langgraph"
    /\ pc = "save_outputs"
    /\ app.nodes["save_outputs"] = "save_outputs_node"
    /\ \E now \in clock..MaxClock, at \in FaultPoints, kind \in FaultKinds :
          LET r == save_outputs_node(state, fs, now, at, kind)
          IN  /\ state' = r.state
              /\ fs' = r.fs
              /\ clock' = IF r.readClock THEN now ELSE clock
              /\ log' = log \o <<Enter("save_outputs")>> \o r.events
                         \o (IF r.raised THEN <<>>
                             ELSE Arrive(app.edges["save_outputs"]))
              /\ pc' = IF r.raised THEN "aborted"
                       ELSE app.edges["save_outputs"]
              /\ UNCHANGED <<prog, configs>>

\* ld_client.flush() and the closing banner, after app.invoke returned
Flush ==
    /\ prog = "langgraph"
    /\ pc = END
    /\ pc' = "exited"
    /\ log' = Append(log, Event("flush", "", <<>>, "ok"))
    /\ UNCHANGED <<prog, state, configs, fs, clock>>

(* ------------------------------------------------------ the direct script *)
DirectValidate ==
    /\ prog = "direct"
    /\ pc = "VALIDATING IDEA"
    /\ \E c \in CfgOutcomes :
          LET r == validate_idea(state.user_id, state.idea,
                                 state.target_audience,
                                 state.problem_statement, c)
          IN  /\ configs' = [configs EXCEPT !.idea_config = r.ret]
              /\ log' = log \o r.events
    /\ pc' = "WRITING LANDING PAGE"
    /\ UNCHANGED <<prog, state, fs, clock>>

DirectLandingPage ==
    /\ prog = "direct"
    /\ pc = "WRITING LANDING PAGE"
    /\ \E c \in CfgOutcomes :
          LET r == write_landing_page(state.user_id, state.idea,
                                      state.target_audience, SampleValueProp, c)
          IN  /\ configs' = [configs EXCEPT !.landing_config = r.ret]
              /\ log' = log \o r.events
    /\ pc' = "RECOMMENDING TECH STACK"
    /\ UNCHANGED <<prog, state, fs, clock>>

DirectTechStack ==
    /\ prog = "direct"
    /\ pc = "RECOMMENDING TECH STACK"
    /\ \E c \in CfgOutcomes :
          LET r == recommend_tech_stack(state.user_id, SampleUsers,
                                        SampleBudget, SampleExpertise, c)
          IN  /\ configs' = [configs EXCEPT !.stack_config = r.ret]
              /\ log' = log \o r.events
    /\ pc' = "flush"
    /\ UNCHANGED <<prog, state, fs, clock>>

DirectFlush ==
    /\ prog = "direct"
    /\ pc = "flush"
    /\ pc' = "exited"
    /\ log' = Append(log, Event("flush", "", <<>>, "ok"))
    /\ UNCHANGED <<prog, state, configs, fs, clock>>

Next ==
    \/ ValidateIdea
    \/ WriteLandingPage
    \/ RecommendStack
    \/ SaveOutputs
    \/ Flush
    \/ DirectValidate
    \/ DirectLandingPage
    \/ DirectTechStack
    \/ DirectFlush

Spec == Init /\ [][Next]_vars

\* each script runs to its end unless an exception stops it
FairSpec == Spec /\ WF_vars(Next)


(* ------------------------------------------------------ reading the log *)
Ops(l, op) == SelectSeq(l, LAMBDA e : e.op = op)

Keys(l) == [i \in 1..Len(l) |-> l[i].key]

IsPrefix(a, b) == Len(a) <= Len(b) /\ a = SubSeq(b, 1, Len(a))

Has(l, op, key) == \E i \in 1..Len(l) : l[i].op = op /\ l[i].key = key

\* the node that was running when event i was logged
NodeAt(l, i) ==
    LET starts == {j \in 1..i : l[j].op = "node" /\ l[j].res = "start"}
    IN  IF starts = {} THEN "none"
        ELSE l[CHOOSE j \in starts : \A k \in starts : k <= j].key

PipelineOrder ==
    <<"validate_idea", "write_landing_page", "recommend_stack",
      "save_outputs", END>>

Graph == prog = "langgraph"

(* ------------------------------------------------------------------- C1 *)
C1_Order ==
    Graph =>
      LET t == Keys(Ops(log, "node"))
      IN  /\ IsPrefix(t, PipelineOrder)
          /\ pc \in {END, "exited"} => t = PipelineOrder
          /\ \A i \in 1..Len(PipelineOrder) : pc = PipelineOrder[i] /\ pc # END =>
                t = SubSeq(PipelineOrder, 1, i - 1)

\* C1: in every run of the graph pipeline the nodes run in the order
\* validate_idea, write_landing_page, recommend_stack, save_outputs, each at
\* most once and each after its predecessor returned; END is reached at most
\* once, and it is reached in every run in which no external call raises.
C1_FixedTotalOrder ==
    /\ []C1_Order
    /\ [](Graph /\ pc # "aborted") => <>(pc = END)

C1_Witness ==
    /\ Graph
    /\ pc = "exited"
    /\ Keys(Ops(log, "node")) = PipelineOrder


(* ------------------------------------------------------------------- C2 *)
FieldOrder == <<"idea_validation", "landing_page_copy", "tech_stack">>

StageKeys == <<"idea-validator", "landing-page-writer", "tech-stack-advisor">>

StageNodes == <<"validate_idea", "write_landing_page", "recommend_stack">>

StageIndex(seq, x) == CHOOSE i \in 1..Len(seq) : seq[i] = x

FieldOf(key) == FieldOrder[StageIndex(StageKeys, key)]

\* the value the last "set" event of the field stored
Written(l, field) ==
    LET at == {i \in 1..Len(l) : l[i].op = "set" /\ l[i].key = field}
    IN  l[CHOOSE i \in at : \A j \in at : j <= i].arg[1]

\* C2: the three output fields are empty in the initial state; along a run
\* each is written at most once, by the stage that owns it, and in pipeline
\* order (landing_page_copy never before idea_validation, tech_stack never
\* before landing_page_copy); a field no stage has written is still empty.
C2_WrittenOnceInOrder ==
    Graph =>
      /\ log = <<>> => \A f \in OutputFields : state[f] = ""
      /\ IsPrefix(Keys(Ops(log, "set")), FieldOrder)
      /\ \A i \in 1..Len(log) : log[i].op = "set" =>
            NodeAt(log, i) = StageNodes[StageIndex(FieldOrder, log[i].key)]
      /\ \A f \in OutputFields :
            IF Has(log, "set", f) THEN state[f] = Written(log, f)
            ELSE state[f] = ""

C2_Witness ==
    /\ Graph
    /\ Keys(Ops(log, "set")) = FieldOrder
    /\ pc = "save_outputs"

(* ------------------------------------------------------------------- C3 *)
AllFetched == Keys(Ops(log, "fetch")) = StageKeys

NoneEnabled == \A i \in 1..Len(log) : log[i].op = "fetch" => log[i].res # "enabled"

\* C3: a stage invokes the language model if and only if the configuration
\* it fetched is enabled; a stage whose configuration is not enabled stores
\* exactly "Config not enabled"; so a run in which no configuration is
\* enabled ends with the three output fields equal to "Config not enabled"
\* and no model call made.
C3_ModelCalledIffEnabled ==
    Graph =>
      /\ \A i \in 1..Len(log) : log[i].op = "fetch" =>
            /\ Has(log, "llm", log[i].key) <=> log[i].res = "enabled"
            /\ log[i].res # "enabled" => state[FieldOf(log[i].key)] = NotEnabled
      /\ \A i \in 1..Len(log) : log[i].op = "llm" =>
            /\ i > 1
            /\ log[i - 1].op = "fetch"
            /\ log[i - 1].key = log[i].key
      /\ (pc \in {END, "exited"} /\ NoneEnabled) =>
            /\ \A f \in OutputFields : state[f] = NotEnabled
            /\ Ops(log, "llm") = <<>>

C3_Witness ==
    /\ Graph
    /\ pc = END
    /\ AllFetched
    /\ NoneEnabled
    /\ Ops(log, "llm") = <<>>

(* ------------------------------------------------------------------- C4 *)
SomeNotEnabled ==
    \E i \in 1..Len(log) : log[i].op = "fetch" /\ log[i].res # "enabled"

\* the run was ended by a model call or a file-system call that raised
AbortedByFault ==
    /\ pc = "aborted"
    /\ log # <<>>
    /\ log[Len(log)].op \in {"llm", "mkdir", "write_text"}
    /\ log[Len(log)].res \in {"raised", "unopened", "truncated"}

C4_Degrades ==
    Graph =>
      /\ \A i \in 1..Len(log) :
            (log[i].op = "fetch" /\ log[i].res # "enabled") =>
               /\ i < Len(log)
               /\ log[i + 1].op = "set"
               /\ log[i + 1].key = FieldOf(log[i].key)
               /\ log[i + 1].arg = <<NotEnabled>>
      /\ pc = "aborted" => AbortedByFault
      /\ pc = END => Keys(Ops(log, "node")) = PipelineOrder

C5_Aborted ==
    Graph =>
      \A i \in 1..Len(log) : (log[i].op = "llm" /\ log[i].res = "raised") =>
         /\ i = Len(log)
         /\ pc = "aborted"
         /\ state[FieldOf(log[i].key)] = ""
         /\ ~Has(log, "set", FieldOf(log[i].key))
         /\ ~Has(log, "track_success", log[i].key)
         /\ NodeAt(log, Len(log)) = StageNodes[StageIndex(StageKeys, log[i].key)]
         /\ ~Has(log, "node", "save_outputs")
         /\ ~Has(log, "node", END)
         /\ Ops(log, "mkdir") = <<>>
         /\ Ops(log, "write_text") = <<>>

\* C5: a model call that raises in an enabled stage ends the run: the
\* stage's output field stays empty, track_success is not called, no later
\* stage and no save_outputs runs, no file is written, END is not reached,
\* and nothing happens afterwards.
C5_ModelFaultAborts ==
    /\ []C5_Aborted
    /\ [][pc # "aborted"]_vars

C5_Witness ==
    /\ Graph
    /\ pc = "aborted"
    /\ log[Len(log)].op = "llm"
    /\ log[Len(log)].key = "landing-page-writer"
    /\ log[Len(log)].res = "raised"
    /\ state.idea_validation # ""
    /\ state.landing_page_copy = ""


(* ------------------------------------------------------------------- C6 *)
FetchOf(l, key) == l[CHOOSE i \in 1..Len(l) : l[i].op = "fetch" /\ l[i].key = key]

LlmOf(l, key) == l[CHOOSE i \in 1..Len(l) : l[i].op = "llm" /\ l[i].key = key]

\* C6 as stated: once the three stages have run, every output field is
\* "Config not enabled" or non-empty text, so none is empty when
\* save_outputs starts.
C6_AsStated ==
    (Graph /\ pc = "save_outputs") =>
       \A f \in OutputFields : state[f] = NotEnabled \/ state[f] # ""

\* C6 amended: once the three stages have run, every output field has been
\* assigned: it is "Config not enabled" when the stage's configuration was
\* not enabled, and otherwise exactly the text the model returned, which is
\* empty when the model returned an empty response.
C6_PlaceholderOrResponse ==
    (Graph /\ (pc = "save_outputs" \/ Has(log, "node", "save_outputs"))) =>
       \A k \in {StageKeys[i] : i \in 1..Len(StageKeys)} :
          /\ Has(log, "set", FieldOf(k))
          /\ IF FetchOf(log, k).res = "enabled"
             THEN /\ LlmOf(log, k).res = "returned"
                  /\ state[FieldOf(k)] = LlmOf(log, k).arg[4][1]
             ELSE state[FieldOf(k)] = NotEnabled

C6_Witness ==
    /\ Graph
    /\ pc = "save_outputs"
    /\ state.idea_validation = ""
    /\ state.landing_page_copy = NotEnabled
    /\ state.tech_stack = "Looks promising."

(* ------------------------------------------------------------------- C7 *)
Succeeded == Graph /\ pc \in {END, "exited"}

\* C7: after a successful run the directory state.output_dir holds exactly
\* the four files 00-summary.md, 01-idea-validation.md, 02-landing-page.md
\* and 03-tech-stack.md, whatever each stage's outcome was; over a directory
\* an earlier run left files in, the run replaces their content with its
\* own and adds no file.
C7_ExactlyFourFiles ==
    Succeeded =>
       LET d == state.output_dir
       IN  /\ d \in DOMAIN fs
           /\ DOMAIN fs[d] =
                 {"00-summary.md", "01-idea-validation.md",
                  "02-landing-page.md", "03-tech-stack.md"}
           /\ fs[d]["01-idea-validation.md"] =
                 <<"# Idea Validation", "\n\n", state.idea_validation>>
           /\ fs[d]["02-landing-page.md"] =
                 <<"# Landing Page Copy", "\n\n", state.landing_page_copy>>
           /\ fs[d]["03-tech-stack.md"] =
                 <<"# Tech Stack Recommendation", "\n\n", state.tech_stack>>
           /\ fs[d]["00-summary.md"] = SummaryMd(state, clock)
           /\ Len(Ops(log, "write_text")) = Cardinality(DOMAIN fs[d])

C7_Witness ==
    /\ Succeeded
    /\ Cardinality(DOMAIN fs[state.output_dir]) = Cardinality(FileNames)
    /\ \A i \in 1..Len(log) : log[i].op = "write_text" => log[i].res = "replaced"
    /\ state.idea_validation = NotEnabled

(* ------------------------------------------------------------------- C9 *)
\* C9: no step of the pipeline changes one of the nine input fields; a stage
\* changes at most its own output field; save_outputs, and every step after
\* it, changes no field of the state.
C9_Frame ==
    [][Graph =>
         /\ \A f \in InputFields : state'[f] = state[f]
         /\ \A i \in 1..Len(StageNodes) : pc = StageNodes[i] =>
               \A f \in OutputFields \ {FieldOrder[i]} : state'[f] = state[f]
         /\ (\A i \in 1..Len(StageNodes) : pc # StageNodes[i]) => state' = state
      ]_vars

C9_Witness ==
    /\ Graph
    /\ pc = "exited"
    /\ state.idea_validation = "Looks promising."
    /\ state.tech_stack = NotEnabled

(* ------------------------------------------------------------------ C10 *)
WriteOrder ==
    <<"01-idea-validation.md", "02-landing-page.md", "03-tech-stack.md",
      "00-summary.md">>

FilesIn(f, dir) == IF dir \in DOMAIN f THEN DOMAIN f[dir] ELSE {}

\* C10: save_outputs writes its files one at a time in the order
\* 01-idea-validation.md, 02-landing-page.md, 03-tech-stack.md,
\* 00-summary.md; when it raises part-way, a directory that held no file
\* before holds a prefix of that order, so 00-summary.md is there only if
\* the three stage files are.
C10_PrefixOfWriteOrder ==
    [][(Graph /\ pc = "save_outputs") =>
         LET d == state.output_dir
             new == SubSeq(log', Len(log) + 1, Len(log'))
             after == FilesIn(fs', d)
         IN  /\ IsPrefix(Keys(Ops(new, "write_text")), WriteOrder)
             /\ FilesIn(fs, d) = {} =>
                  /\ \E n \in 0..Len(WriteOrder) :
                        after = {WriteOrder[i] : i \in 1..n}
                  /\ "00-summary.md" \in after =>
                        {"01-idea-validation.md", "02-landing-page.md",
                         "03-tech-stack.md"} \subseteq after
      ]_vars

C10_Witness ==
    /\ Graph
    /\ pc = "aborted"
    /\ \E i \in 1..Len(log) : log[i].op = "mkdir" /\ log[i].res = "created"
    /\ FilesIn(fs, state.output_dir) =
          {"01-idea-validation.md", "02-landing-page.md"}


(* ------------------------------------------------------------------- C8 *)
DirectDone == prog = "direct" /\ pc = "exited"

\* the configuration fetches, model calls, output-field writes and file
\* writes of a run, in order: what was called, on what, with what result
Calls(l) ==
    LET c == SelectSeq(l, LAMBDA e :
                 e.op \in {"fetch", "llm", "set", "write_text"})
    IN  [i \in 1..Len(c) |-> <<c[i].op, c[i].key, c[i].res>>]

\* the configuration fetches of a run, in order: name, variables, result
Fetches(l) ==
    LET c == Ops(l, "fetch")
    IN  [i \in 1..Len(c) |-> <<c[i].key, c[i].arg[2], c[i].res>>]

\* the graph pipeline run on the inputs the direct script hard-codes, the
\* configuration service answering each stage as it answered the direct
\* script's fetch at the same position, the
\* model returning the given responses, no file-system call raising
GraphOnSameInputs(responses) ==
    Invoke(get_user_input(RawSample, clock), EmptyFs,
           [cfg |-> [n \in {StageNodes[i] : i \in 1..Len(StageNodes)} |->
                        Ops(log, "fetch")[StageIndex(StageNodes, n)].res],
            llm |-> responses, now |-> clock, at |-> "none",
            kind |-> "unopened"])

ResponseChoices == [{StageNodes[i] : i \in 1..Len(StageNodes)} -> Responses]

====
